---------------------------- MODULE Spec2Model ----------------------------
(***************************************************************************)
(* Model of artificial_anneal.py: the coordinate codec (r2xy, xy2r), the   *)
(* pairwise interaction of ElectrostaticPotential and ResonatorSolver      *)
(* (calculate_Rij, Vee, Vtotal, grad_Vee, grad_total) and the annealing    *)
(* loop ResonatorSolver.perturb_and_solve.                                 *)
(*                                                                         *)
(* Numbers.  Coordinates are integers (multiples of one length unit).      *)
(* Energies reported by the external minimizer are integers.  Quantities   *)
(* that the code obtains by division are exact rationals <<num, den>>.     *)
(***************************************************************************)
EXTENDS Integers, Sequences, FiniteSets, TLC

\* ------------------------------------------------------------------ bounds
\* Coordinates of the starting solution range over -MaxCoord..MaxCoord.
MaxCoord == 1
\* Energies reported by the minimizer range over 0..MaxEnergy.
MaxEnergy == 2
\* N_perturbations ranges over 0..MaxTrials.
MaxTrials == 2
\* The coordinate sequences handed to the codec have at most MaxLen elements,
\* the position vectors at most 2 * MaxLen.
MaxLen == 2
\* The y coordinates handed to Vee range over -MaxY..MaxY, in and out of the
\* periodic domain.
MaxY == 4
MaxCalls == 4
MaxInterval == 3

Coords == (0 - MaxCoord)..MaxCoord
Energies == 0..MaxEnergy
\* scipy's status code: 0 is "converged", anything else (here 1) is not.
Statuses == {0, 1}
\* The temperatures tried: T = 0 and one T > 0.
Temps == {0, 1}
\* A draw of np.random.randn, up to a positive scale: negative or positive
\* (a draw of exactly 0.0 has probability zero).
Draws == {0 - 1, 1}

\* IEEE values that are no integer of the model: they lie outside every
\* coordinate a perturbation can produce (|coordinate| <= MaxCoord + 1).
PosInf == MaxCoord + 2
NegInf == 0 - (MaxCoord + 2)
NaN == MaxCoord + 3

Abs(a) == IF a < 0 THEN 0 - a ELSE a

\* ------------------------------------------------------------------- codec
\* A faulty variant of xy2r that pads the shorter sequence with zeros.
xy2r_padding(x, y) ==
    LET n == IF Len(x) > Len(y) THEN Len(x) ELSE Len(y)
    IN  [raised |-> FALSE,
         r |-> [i \in 1..(2 * n) |->
                  IF i % 2 = 1
                  THEN (IF (i + 1) \div 2 <= Len(x) THEN x[(i + 1) \div 2] ELSE 0)
                  ELSE (IF i \div 2 <= Len(y) THEN y[i \div 2] ELSE 0)]]

\* A faulty variant of r2xy that hands the two views back in the wrong order.
r2xy_swapped(r) ==
    << [k \in 1..(Len(r) \div 2) |-> r[2 * k]],
       [k \in 1..((Len(r) + 1) \div 2) |-> r[2 * k - 1]] >>

\* r[::2], r[1::2]: the even-indexed and the odd-indexed elements (0-based),
\* here 1-based: x[k] = r[2k-1], y[k] = r[2k].
r2xy(r) ==
    << [k \in 1..((Len(r) + 1) \div 2) |-> r[2 * k - 1]],
       [k \in 1..(Len(r) \div 2) |-> r[2 * k]] >>

\* xy2r: np.zeros(2 * len(x)), then r[::2] = x and r[1::2] = y; a ValueError
\* when the lengths differ (raised, and no vector is returned).
xy2r(x, y) ==
    IF Len(x) = Len(y)
    THEN [raised |-> FALSE,
          r |-> [i \in 1..(2 * Len(x)) |->
                   IF i % 2 = 1 THEN x[(i + 1) \div 2] ELSE y[i \div 2]]]
    ELSE [raised |-> TRUE, r |-> << >>]

\* ------------------------------------------------------- codec, as called
VARIABLES
    codec_pc,    \* "off", "xy", "encoded", "round_trip_xy", "r", "decoded", "round_trip_r"
    codec_in,    \* the arguments: [x, y] for xy2r, [r] for r2xy
    codec_enc,   \* what xy2r returned
    codec_dec    \* what r2xy returned

codecVars == << codec_pc, codec_in, codec_enc, codec_dec >>

SeqsUpTo(S, len) == UNION { [1..m -> S] : m \in 0..len }

NoVector == [raised |-> FALSE, r |-> << >>]

CodecOff ==
    /\ codec_pc = "off"
    /\ codec_in = [x |-> << >>, y |-> << >>, r |-> << >>]
    /\ codec_enc = NoVector
    /\ codec_dec = << << >>, << >> >>

\* The codec is handed either two coordinate sequences or a position vector.
InitCodec ==
    /\ codec_enc = NoVector
    /\ codec_dec = << << >>, << >> >>
    /\ \/ /\ codec_pc = "xy"
          /\ \E x \in SeqsUpTo(Coords, MaxLen), y \in SeqsUpTo(Coords, MaxLen) :
                codec_in = [x |-> x, y |-> y, r |-> << >>]
       \/ /\ codec_pc = "r"
          /\ \E r \in SeqsUpTo(Coords, 2 * MaxLen) :
                codec_in = [x |-> << >>, y |-> << >>, r |-> r]

\* xy2r(x, y)
Encode ==
    /\ codec_pc = "xy"
    /\ codec_enc' = xy2r(codec_in.x, codec_in.y)
    /\ codec_pc' = "encoded"
    /\ UNCHANGED << codec_in, codec_dec >>

\* r2xy(xy2r(x, y)), when xy2r returned
DecodeEncoded ==
    /\ codec_pc = "encoded"
    /\ ~codec_enc.raised
    /\ codec_dec' = r2xy(codec_enc.r)
    /\ codec_pc' = "round_trip_xy"
    /\ UNCHANGED << codec_in, codec_enc >>

\* r2xy(r)
Decode ==
    /\ codec_pc = "r"
    /\ codec_dec' = r2xy(codec_in.r)
    /\ codec_pc' = "decoded"
    /\ UNCHANGED << codec_in, codec_enc >>

\* xy2r(*r2xy(r))
EncodeDecoded ==
    /\ codec_pc = "decoded"
    /\ codec_enc' = xy2r(codec_dec[1], codec_dec[2])
    /\ codec_pc' = "round_trip_r"
    /\ UNCHANGED << codec_in, codec_dec >>

\* ------------------------------------------------- periodic pair distances
\* Matrices are functions row -> column -> entry, rows and columns from 1.
\* With Xi, Yi = np.meshgrid(xi, yi) and Xj, Yj = Xi.T, Yi.T the entries are
\* Xi[m][c] = xi[c], Xj[m][c] = xi[m], Yi[m][c] = yi[m], Yj[m][c] = yi[c].
Square(a) == a * a

\* The domain lengths tried, in length units; the code's default is 40E-6 m.
\* They are even, so that the bounds -L/2 and L/2 are integers.
BoxLengths == {4, 6}

\* map_y_into_domain with ybounds = None: (-L/2) + (y - (-L/2)) % L per
\* element.  Python's % with a positive modulus is TLA+'s.
map_y_into_domain(y, box_y_length) ==
    LET lo == 0 - (box_y_length \div 2)
        hi == box_y_length \div 2
    IN  [k \in 1..Len(y) |-> lo + ((y[k] - lo) % (hi - lo))]

\* Yi_shifted[Yi_shifted > 0] -= box_y_length, for one entry.
Shifted(v, box_y_length) == IF v > 0 THEN v - box_y_length ELSE v

\* Rij_standard and Rij_shifted of calculate_Rij and calculate_YiYj, kept as
\* their squares (the distances are square roots of these integers): the
\* entry of row m and column c, and the matrices.
StandardEntry(xi, yi, m, c) == Square(xi[c] - xi[m]) + Square(yi[m] - yi[c])

ShiftedEntry(xi, yi, box_y_length, m, c) ==
    Square(xi[c] - xi[m])
      + Square(Shifted(yi[m], box_y_length) - Shifted(yi[c], box_y_length))

Rij_standard(xi, yi) ==
    [m \in 1..Len(yi) |-> [c \in 1..Len(xi) |-> StandardEntry(xi, yi, m, c)]]

Rij_shifted(xi, yi, box_y_length) ==
    [m \in 1..Len(yi) |-> [c \in 1..Len(xi) |->
        ShiftedEntry(xi, yi, box_y_length, m, c)]]

Min(a, b) == IF a <= b THEN a ELSE b

\* A faulty variant of calculate_Rij that forgets the periodic image.
calculate_Rij_direct(xi, yi, box_y_length) == Rij_standard(xi, yi)

\* calculate_Rij: np.minimum(Rij_standard, Rij_shifted), entries squared (the
\* square root is increasing, so the smaller root is the root of the smaller
\* square).
calculate_Rij(xi, yi, box_y_length) ==
    [m \in 1..Len(yi) |-> [c \in 1..Len(xi) |->
        Min(StandardEntry(xi, yi, m, c), ShiftedEntry(xi, yi, box_y_length, m, c))]]

\* ------------------------------------------------------------- rationals
\* A rational is <<numerator, denominator>> in lowest terms, denominator > 0.
\* The arithmetic is written as functions, whose arguments are values when
\* the body is evaluated; the operators of the same names apply them.
GcdOf[a \in Nat, b \in Nat] == IF b = 0 THEN a ELSE GcdOf[b, a % b]
Gcd(a, b) == GcdOf[a, b]

RatOf ==
    [num \in Int, den \in Int |->
        LET g == GcdOf[Abs(num), Abs(den)]
            sgn == IF den < 0 THEN 0 - 1 ELSE 1
        IN  << sgn * (num \div g), sgn * (den \div g) >>]
Rat(num, den) == RatOf[num, den]

Zero == << 0, 1 >>
One == << 1, 1 >>
Rationals == Int \X Int
RAddOf ==
    [a \in Rationals, b \in Rationals |->
        RatOf[a[1] * b[2] + b[1] * a[2], a[2] * b[2]]]
RMulOf == [a \in Rationals, b \in Rationals |-> RatOf[a[1] * b[1], a[2] * b[2]]]
RDivOf == [a \in Rationals, b \in Rationals |-> RatOf[a[1] * b[2], a[2] * b[1]]]
RAdd(a, b) == RAddOf[a, b]
RMul(a, b) == RMulOf[a, b]
RDiv(a, b) == RDivOf[a, b]
RNeg(a) == RatOf[0 - a[1], a[2]]

RECURSIVE RSumTo(_, _)
RSumTo(seq, len) ==
    IF len = 0 THEN Zero ELSE RAdd(RSumTo(seq, len - 1), seq[len])
RSum(seq) == RSumTo(seq, Len(seq))

\* np.sum(M, axis=0): one sum per column, over the rows.
SumAxis0(M) ==
    [c \in 1..(IF Len(M) = 0 THEN 0 ELSE Len(M[1])) |->
        RSum([m \in 1..Len(M) |-> M[m][c]])]

\* np.sum(M): over all entries.
SumAll(M) == RSum([m \in 1..Len(M) |-> RSum(M[m])])

\* np.fill_diagonal(M, v)
fill_diagonal(M, v) ==
    [m \in 1..Len(M) |-> [c \in 1..Len(M[m]) |-> IF m = c THEN v ELSE M[m][c]]]

IsSquare(v) == \E root \in 0..v : root * root = v
\* np.sqrt of a perfect square.
SqrtOf == [v \in Nat |-> CHOOSE root \in 0..v : root * root = v]
Sqrt(v) == SqrtOf[v]

\* ------------------------------------------------------------ energy model
\* Units.  Lengths are in micrometres, charges in elementary charges and
\* potentials in k qe / um with k = 1 / (4 pi eps0); so Vtotal, which the
\* code divides by qe, is in units of k qe / um (electron-volts up to that
\* factor) and grad_total in units of k qe / um^2.
qe == One
\* 1 / (4 * np.pi * self.eps0)
k_coulomb == One
\* eps=1E-15 metres, in micrometres.
eps == << 1, 1000000000 >>

\* The two classes that carry Vee, Vtotal, grad_Vee and grad_total.
Solvers == {"ElectrostaticPotential", "ResonatorSolver"}
\* The external fields tried: none, and V(x, y) = x^2 / 2.
Fields == {"zero", "parabola"}

\* V, dVdx and dVdy: the fitted field and its derivatives, per charge.
V(field, xi, yi) ==
    [c \in 1..Len(xi) |-> IF field = "zero" THEN Zero ELSE Rat(Square(xi[c]), 2)]
dVdx(field, xi, yi) ==
    [c \in 1..Len(xi) |-> IF field = "zero" THEN Zero ELSE Rat(xi[c], 1)]
dVdy(field, xi, yi) == [c \in 1..Len(xi) |-> Zero]

\* Velectrostatic: self.qe * np.sum(self.V(xi, yi))
Velectrostatic(field, xi, yi) == RMul(qe, RSum(V(field, xi, yi)))

\* Lines 173-174 of ElectrostaticPotential and 429-431 of ResonatorSolver: the
\* distances of all pairs, eps on the diagonal.  The periodic variant maps y
\* into the domain first and takes the nearer of the pair and its image.
RijEps(solver, L, xi, yi) ==
    LET y == IF solver = "ResonatorSolver" THEN map_y_into_domain(yi, L) ELSE yi
        sq == IF solver = "ResonatorSolver"
              THEN calculate_Rij(xi, y, L)
              ELSE Rij_standard(xi, y)
    IN  fill_diagonal([m \in 1..Len(y) |-> [c \in 1..Len(xi) |->
                          Rat(Sqrt(sq[m][c]), 1)]], eps)

\* A faulty variant of Vee without the factor 1/2 that avoids overcounting.
Vee_overcounting(solver, L, xi, yi) ==
    LET R == RijEps(solver, L, xi, yi)
    IN  [m \in 1..Len(R) |-> [c \in 1..Len(R[m]) |->
            RMul(RMul(RMul(qe, qe), k_coulomb), RDiv(One, R[m][c]))]]

\* Vee: + 1 / 2. * self.qe ** 2 / (4 * np.pi * self.eps0) * 1 / Rij
Vee(solver, L, xi, yi) ==
    LET R == RijEps(solver, L, xi, yi)
    IN  [m \in 1..Len(R) |-> [c \in 1..Len(R[m]) |->
            RMul(RMul(Rat(1, 2), RMul(RMul(qe, qe), k_coulomb)),
                 RDiv(One, R[m][c]))]]

\* Vtotal
Vtotal(solver, field, L, r) ==
    LET xi == r2xy(r)[1]
        yi == r2xy(r)[2]
        interaction_matrix == fill_diagonal(Vee(solver, L, xi, yi), Zero)
    IN  RDiv(RAdd(Velectrostatic(field, xi, yi), SumAll(interaction_matrix)), qe)

\* A faulty variant of calculate_YiYj that switches all pairs to the shifted
\* difference as soon as the image is nearer for one of them.
calculate_YiYj_global(xi, yi, box) ==
    LET some_nearer ==
            \E m \in 1..Len(yi), c \in 1..Len(xi) :
                ShiftedEntry(xi, yi, box, m, c) < StandardEntry(xi, yi, m, c)
    IN  [m \in 1..Len(yi) |-> [c \in 1..Len(xi) |->
            IF some_nearer
            THEN Shifted(yi[m], box) - Shifted(yi[c], box)
            ELSE yi[m] - yi[c]]]

\* calculate_YiYj: Yi - Yj, and the shifted difference where the image is
\* strictly nearer.
calculate_YiYj(xi, yi, box) ==
    [m \in 1..Len(yi) |-> [c \in 1..Len(xi) |->
        IF ShiftedEntry(xi, yi, box, m, c) < StandardEntry(xi, yi, m, c)
        THEN Shifted(yi[m], box) - Shifted(yi[c], box)
        ELSE yi[m] - yi[c]]]

CubeOf == [a \in Rationals |-> RMulOf[a, RMulOf[a, a]]]
Cube(a) == CubeOf[a]

\* The entries of gradx_matrix and grady_matrix off the diagonal; on it
\* np.fill_diagonal(..., 0) overwrites the quotient 0 / eps ** 3.
GradEntry(sign, diff, R) ==
    RMul(RMul(Rat(sign, 1), RMul(RMul(qe, qe), k_coulomb)),
         RDiv(Rat(diff, 1), Cube(R)))

\* Lines 245-256 and 463-475: the gradient from the distances R and the
\* differences XiXj = Xi - Xj and YiYj, with gradx_matrix of sign sx.
GradFromMatricesOf ==
    [sx \in {0 - 1, 1}, XiXj \in Seq(Seq(Int)), YiYj \in Seq(Seq(Int)),
     R \in Seq(Seq(Rationals)) |->
        LET gradx_matrix == [m \in 1..Len(R) |-> [c \in 1..Len(R) |->
                                IF m = c THEN Zero
                                ELSE GradEntry(sx, XiXj[m][c], R[m][c])]]
            grady_matrix == [m \in 1..Len(R) |-> [c \in 1..Len(R) |->
                                IF m = c THEN Zero
                                ELSE GradEntry(1, YiYj[m][c], R[m][c])]]
        IN  xy2r(SumAxis0(gradx_matrix), SumAxis0(grady_matrix)).r]
GradFromMatrices(sx, XiXj, YiYj, R) == GradFromMatricesOf[sx, XiXj, YiYj, R]

\* Xi - Xj, Yi - Yj and, in the periodic variant, calculate_YiYj of the
\* mapped y.
XDifferences(xi) == [m \in 1..Len(xi) |-> [c \in 1..Len(xi) |-> xi[c] - xi[m]]]
YDifferences(solver, L, xi, yi) ==
    IF solver = "ResonatorSolver"
    THEN calculate_YiYj(xi, map_y_into_domain(yi, L), L)
    ELSE [m \in 1..Len(yi) |-> [c \in 1..Len(xi) |-> yi[m] - yi[c]]]

\* A faulty variant of grad_Vee with the sign of gradx_matrix flipped.
grad_Vee_flipped(solver, L, xi, yi) ==
    GradFromMatrices(1, XDifferences(xi), YDifferences(solver, L, xi, yi),
                     RijEps(solver, L, xi, yi))

\* grad_Vee: gradient[::2] and gradient[1::2] are the column sums of
\* gradx_matrix = -qe^2 k (Xi - Xj) / Rij^3 and
\* grady_matrix = +qe^2 k (Yi - Yj) / Rij^3 (YiYj in the periodic variant).
grad_Vee(solver, L, xi, yi) ==
    GradFromMatrices(0 - 1, XDifferences(xi), YDifferences(solver, L, xi, yi),
                     RijEps(solver, L, xi, yi))

\* gradient += self.grad_Vee(xi, yi) / self.qe, element by element.
SumOfGradients ==
    [field_part \in Seq(Rationals), pair_part \in Seq(Rationals) |->
        [i \in 1..Len(field_part) |->
            RAdd(field_part[i], RDiv(pair_part[i], qe))]]
\* grad_total
grad_total(solver, field, L, r) ==
    LET xi == r2xy(r)[1]
        yi == r2xy(r)[2]
    IN  SumOfGradients[xy2r(dVdx(field, xi, yi), dVdy(field, xi, yi)).r,
                       grad_Vee(solver, L, xi, yi)]

\* ------------------------------------ the pair distances, as obtained
VARIABLES
    rij_pc,          \* "off", "called", "mapped", "done", "filled", "differences"
    rij_caller,      \* "Vee" or "grad_Vee" of ResonatorSolver
    box_y_length,    \* self.box_y_length
    rij_xi,          \* the caller's argument xi
    rij_yi,          \* the caller's argument yi, and yi after line 429 / 456
    Rij,             \* what calculate_Rij returned (squared entries)
    Rij_diagonal,    \* the diagonal of Rij: 0, and after np.fill_diagonal eps
    YiYj             \* grad_Vee's YiYj, line 470

rijVars == << rij_pc, rij_caller, box_y_length, rij_xi, rij_yi, Rij,
              Rij_diagonal, YiYj >>

RijOff ==
    /\ rij_pc = "off"
    /\ rij_caller = "none"
    /\ box_y_length = 0
    /\ rij_xi = << >>
    /\ rij_yi = << >>
    /\ Rij = << >>
    /\ Rij_diagonal = Zero
    /\ YiYj = << >>

\* The numbers of charges Vee and grad_Vee are called with.
ChargeCounts == {1, 2, 3}

\* Vee or grad_Vee is called with the x and y of the charges.
InitRij ==
    /\ rij_pc = "called"
    /\ rij_caller \in {"Vee", "grad_Vee"}
    /\ box_y_length \in BoxLengths
    /\ \E len \in ChargeCounts :
          /\ rij_xi \in [1..len -> Coords]
          /\ rij_yi \in [1..len -> (0 - MaxY)..MaxY]
    /\ Rij = << >>
    /\ Rij_diagonal = Zero
    /\ YiYj = << >>

\* Line 429 (and 456): yi = self.map_y_into_domain(yi)
MapY ==
    /\ rij_pc = "called"
    /\ rij_yi' = map_y_into_domain(rij_yi, box_y_length)
    /\ rij_pc' = "mapped"
    /\ UNCHANGED << rij_caller, box_y_length, rij_xi, Rij, Rij_diagonal, YiYj >>

\* Line 430 (and 460): Rij = self.calculate_Rij(xi, yi)
CalculateRij ==
    /\ rij_pc = "mapped"
    /\ Rij' = calculate_Rij(rij_xi, rij_yi, box_y_length)
    /\ rij_pc' = "done"
    /\ UNCHANGED << rij_caller, box_y_length, rij_xi, rij_yi, Rij_diagonal,
                    YiYj >>

\* Line 431 (and 461): np.fill_diagonal(Rij, eps), with the eps of the caller.
FillDiagonal ==
    /\ rij_pc = "done"
    /\ Rij_diagonal' = eps
    /\ rij_pc' = "filled"
    /\ UNCHANGED << rij_caller, box_y_length, rij_xi, rij_yi, Rij, YiYj >>

\* Line 470 of grad_Vee: YiYj = self.calculate_YiYj(xi, yi)
CalculateYiYj ==
    /\ rij_pc = "filled"
    /\ rij_caller = "grad_Vee"
    /\ YiYj' = calculate_YiYj(rij_xi, rij_yi, box_y_length)
    /\ rij_pc' = "differences"
    /\ UNCHANGED << rij_caller, box_y_length, rij_xi, rij_yi, Rij,
                    Rij_diagonal >>

VARIABLES
    energy_pc,   \* "off", "called", "done"
    energy_in,   \* [solver, field, L, r]: the object and the argument r
    Vtot,        \* what Vtotal(r) returned
    gradient     \* what grad_total(r) returned

energyVars == << energy_pc, energy_in, Vtot, gradient >>

EnergyOff ==
    /\ energy_pc = "off"
    /\ energy_in = [solver |-> "none", field |-> "zero", L |-> 0, r |-> << >>]
    /\ Vtot = Zero
    /\ gradient = << >>

\* The position vectors tried: distinct charges whose distances (to the
\* nearer image, in the periodic variant) are whole numbers of micrometres.
Exact(solver, L, x, y) ==
    \A m \in 1..Len(x), c \in 1..Len(x) :
        m < c =>
          LET w == Abs(map_y_into_domain(<<y[m]>>, L)[1]
                         - map_y_into_domain(<<y[c]>>, L)[1])
              dy == IF solver = "ResonatorSolver" THEN Min(w, L - w)
                    ELSE y[m] - y[c]
              sq == Square(x[m] - x[c]) + Square(dy)
          IN  sq > 0 /\ IsSquare(sq)

InitEnergy ==
    /\ energy_pc = "called"
    /\ \E solver \in Solvers, L \in BoxLengths, len \in 1..MaxLen :
          \E x \in [1..len -> Coords], y \in [1..len -> Coords] :
             /\ Exact(solver, L, x, y)
             /\ \E field \in Fields :
                   energy_in = [solver |-> solver, field |-> field, L |-> L,
                                r |-> xy2r(x, y).r]
    /\ Vtot = Zero
    /\ gradient = << >>

\* Vtotal(r) and grad_total(r) at the same r, as the minimizer calls them.
Evaluate_r ==
    /\ energy_pc = "called"
    /\ Vtot' = Vtotal(energy_in.solver, energy_in.field, energy_in.L, energy_in.r)
    /\ gradient' = grad_total(energy_in.solver, energy_in.field, energy_in.L,
                              energy_in.r)
    /\ energy_pc' = "done"
    /\ UNCHANGED energy_in

\* ------------------------------------------------------- annealing refiner
VARIABLES
    solution_data_reference,     \* the argument: [x, fun, status]
    N_perturbations,             \* the argument
    T,                           \* the argument
    pc,                          \* "Idle", "Loop", "AwaitingMinimizer", "Evaluating", "Done"
    electron_initial_positions,  \* line 500
    best_result,                 \* line 501, 513
    n,                           \* the loop index
    kick,                        \* the amplitudes thermal_kick_x returned in this trial
    electron_perturbed_positions,\* line 507
    res,                         \* line 509: what minimize returned
    signal,                      \* what lines 511-519 emitted in the last trial
    returned                     \* line 521

annealVars == << solution_data_reference, N_perturbations, T, pc,
                 electron_initial_positions, best_result, n, kick,
                 electron_perturbed_positions, res, signal, returned >>


NoResult == [x |-> << >>, fun |-> 0, status |-> 0]

\* The fitted field of the model is V(x) = x^3 / 6, a cubic spline: its second
\* derivative along x is x, negative, zero and positive over Coords.
ddVdx(x, y) == x

\* A faulty variant of thermal_kick_x that ignores the temperature.
thermal_kick_x_hot(x, y, temp) ==
    [k \in 1..Len(x) |-> [num |-> 2, den |-> Abs(ddVdx(x[k], y[k]))]]

\* thermal_kick_x: sqrt(2 kB T / |qe ddVdx|) per charge, kept as the square
\* [num, den] in units where kB = qe = 1.  numpy divides by a zero ktrapx
\* without raising: 0/0 is nan and a positive number over 0 is inf.
thermal_kick_x(x, y, temp) ==
    [k \in 1..Len(x) |-> [num |-> 2 * temp, den |-> Abs(ddVdx(x[k], y[k]))]]

AmpIsZero(a) == a.num = 0 /\ a.den # 0
AmpIsNaN(a) == a.num = 0 /\ a.den = 0
AmpIsInf(a) == a.num # 0 /\ a.den = 0

\* v + amplitude * draw in IEEE arithmetic.  A finite positive amplitude times
\* a normal draw is any real of the draw's sign: the draw carries the scale.
Displace(v, a, g) ==
    IF AmpIsNaN(a) THEN NaN
    ELSE IF AmpIsInf(a)
         THEN (IF g = 0 THEN NaN ELSE IF g > 0 THEN PosInf ELSE NegInf)
    ELSE IF AmpIsZero(a) THEN v
    ELSE v + g

StartSolutions ==
    { [x |-> xy2r(<<a, b>>, <<0, 0>>).r, fun |-> e, status |-> s] :
        a \in Coords, b \in Coords, e \in Energies, s \in Statuses }

\* The positions the external minimizer may end in: where the trials start
\* from, or one other arrangement of the charges.
ResultPositions(start) == { start, xy2r(<<0 - 1, 1>>, <<1, 0 - 1>>).r }

InitAnneal ==
    /\ solution_data_reference \in StartSolutions
    /\ N_perturbations \in 0..MaxTrials
    /\ T \in Temps
    /\ pc = "Idle"
    /\ electron_initial_positions = << >>
    /\ best_result = NoResult
    /\ n = 0
    /\ kick = << >>
    /\ electron_perturbed_positions = << >>
    /\ res = NoResult
    /\ signal = "quiet"
    /\ returned = NoResult

\* Lines 500-501.
Enter ==
    /\ pc = "Idle"
    /\ electron_initial_positions' = solution_data_reference.x
    /\ best_result' = solution_data_reference
    /\ n' = 0
    /\ pc' = "Loop"
    /\ UNCHANGED << solution_data_reference, N_perturbations, T, kick,
                    electron_perturbed_positions, res, signal, returned >>

\* Lines 503-507: one pass of the loop header and the perturbation.
Perturb ==
    /\ pc = "Loop"
    /\ n < N_perturbations
    /\ LET xy == r2xy(electron_initial_positions)
           xi == xy[1]
           yi == xy[2]
           amp == thermal_kick_x(xi, yi, T)
       IN  \E gx \in [1..Len(xi) -> Draws], gy \in [1..Len(yi) -> Draws] :
             LET xi_prime == [k \in 1..Len(xi) |-> Displace(xi[k], amp[k], gx[k])]
                 yi_prime == [k \in 1..Len(yi) |-> Displace(yi[k], amp[k], gy[k])]
             IN  /\ kick' = amp
                 /\ electron_perturbed_positions' = xy2r(xi_prime, yi_prime).r
    /\ pc' = "AwaitingMinimizer"
    /\ UNCHANGED << solution_data_reference, N_perturbations, T,
                    electron_initial_positions, best_result, n, res, signal,
                    returned >>

\* Line 509: the external minimizer returns any position, energy and status.
\* The start vector it consumed is not read again (line 507 assigns it anew
\* in the next trial), so the model drops it here.
Minimize ==
    /\ pc = "AwaitingMinimizer"
    /\ \E p \in ResultPositions(electron_initial_positions), e \in Energies,
          s \in Statuses :
         res' = [x |-> p, fun |-> e, status |-> s]
    /\ electron_perturbed_positions' = << >>
    /\ kick' = << >>
    /\ pc' = "Evaluating"
    /\ UNCHANGED << solution_data_reference, N_perturbations, T,
                    electron_initial_positions, best_result, n, signal,
                    returned >>

\* A faulty variant of Classify that takes the higher energy as the improvement.
Classify_worse(r, best) ==
    IF r.status = 0 /\ r.fun > best.fun THEN "improved"
    ELSE IF r.status = 0 /\ r.fun < best.fun THEN "quiet"
    ELSE IF r.status # 0 /\ r.fun < best.fun THEN "missed"
    ELSE IF r.status # 0 /\ r.fun > best.fun THEN "failed"
    ELSE "quiet"

\* A faulty variant of Classify that trusts a lower energy whatever the status.
Classify_trusting(r, best) ==
    IF r.fun < best.fun THEN "improved"
    ELSE IF r.status = 0 /\ r.fun > best.fun THEN "quiet"
    ELSE IF r.status # 0 /\ r.fun > best.fun THEN "failed"
    ELSE "quiet"

\* Lines 511-519: what the if/elif chain emits.  "improved" is the green
\* message (and best_result is replaced), "missed" the red one, "failed" the
\* magenta one; "quiet" is no message at all: the arm of line 514 is `pass`,
\* and when no condition of the chain holds nothing runs either.
Classify(r, best) ==
    IF r.status = 0 /\ r.fun < best.fun THEN "improved"
    ELSE IF r.status = 0 /\ r.fun > best.fun THEN "quiet"
    ELSE IF r.status # 0 /\ r.fun < best.fun THEN "missed"
    ELSE IF r.status # 0 /\ r.fun > best.fun THEN "failed"
    ELSE "quiet"

\* Lines 511-519 and the loop's increment.  res is not read after the chain
\* (line 509 assigns it anew in the next trial), so the model drops it here.
Evaluate ==
    /\ pc = "Evaluating"
    /\ signal' = Classify(res, best_result)
    /\ best_result' = IF signal' = "improved" THEN res ELSE best_result
    /\ res' = NoResult
    /\ n' = n + 1
    /\ pc' = "Loop"
    /\ UNCHANGED << solution_data_reference, N_perturbations, T,
                    electron_initial_positions, kick,
                    electron_perturbed_positions, returned >>

\* Line 521.
Return ==
    /\ pc = "Loop"
    /\ n >= N_perturbations
    /\ returned' = best_result
    /\ pc' = "Done"
    /\ UNCHANGED << solution_data_reference, N_perturbations, T,
                    electron_initial_positions, best_result, n, kick,
                    electron_perturbed_positions, res, signal >>

AnnealOff ==
    /\ solution_data_reference = NoResult
    /\ N_perturbations = 0
    /\ T = 0
    /\ pc = "off"
    /\ electron_initial_positions = << >>
    /\ best_result = NoResult
    /\ n = 0
    /\ kick = << >>
    /\ electron_perturbed_positions = << >>
    /\ res = NoResult
    /\ signal = "quiet"
    /\ returned = NoResult

\* ----------------------------------------------------- ConvergenceMonitor
VARIABLES
    monitor_pc,      \* "off", "built"
    call_every,      \* self.call_every = N
    call_counter,    \* self.call_counter
    iter,            \* self.iter
    curr_fun,        \* self.curr_fun
    curr_grad_norm,  \* self.curr_grad_norm
    jac_rows,        \* the number of rows of self.jac and self.approx_fprime
    Uext_given,      \* Uext, xext and yext are all not None
    save_path_given, \* self.save_path is not None
    pictures,        \* the indices of the files save_pictures wrote
    raised,          \* the last call of save_pictures ended in an exception
    calls            \* history: how often monitor_convergence was entered

monitorVars == << monitor_pc, call_every, call_counter, iter, curr_fun,
                  curr_grad_norm, jac_rows, Uext_given, save_path_given,
                  pictures, raised, calls >>

\* What Uopt(xk) and max |grad_Uopt(xk)| may come to at the iterate handed in.
Readings == {0, 1}

MonitorOff ==
    /\ monitor_pc = "off"
    /\ call_every = 1
    /\ call_counter = 0
    /\ iter = << >>
    /\ curr_fun = << >>
    /\ curr_grad_norm = << >>
    /\ jac_rows = 0
    /\ Uext_given = FALSE
    /\ save_path_given = FALSE
    /\ pictures = << >>
    /\ raised = FALSE
    /\ calls = 0

\* ConvergenceMonitor.__init__ with N >= 1.
InitMonitor ==
    /\ monitor_pc = "built"
    /\ call_every \in 1..MaxInterval
    /\ call_counter = 0
    /\ iter = << >>
    /\ curr_fun = << >>
    /\ curr_grad_norm = << >>
    /\ jac_rows = 0
    /\ Uext_given \in BOOLEAN
    /\ save_path_given \in BOOLEAN
    /\ pictures = << >>
    /\ raised = FALSE
    /\ calls = 0

\* A faulty variant of Due that reports on the calls before the multiples.
Due_early(counter, every) == (counter + 1) % every = 0

\* Line 47: not (self.call_counter % self.call_every)
Due(counter, every) == counter % every = 0

\* The body of monitor_convergence, lines 47-64, with Uopt(xk) = u and
\* max |grad_Uopt(xk)| = g.  Lines 54-59 start self.jac and
\* self.approx_fprime at the first call and stack a row on them afterwards.
monitor_convergence_body(u, g) ==
    /\ IF Due(call_counter, call_every)
       THEN /\ iter' = Append(iter, call_counter)
            /\ curr_fun' = Append(curr_fun, u)
            /\ curr_grad_norm' = Append(curr_grad_norm, g)
            /\ jac_rows' = jac_rows + 1
       ELSE UNCHANGED << iter, curr_fun, curr_grad_norm, jac_rows >>
    /\ call_counter' = call_counter + 1
    /\ calls' = calls + 1

\* monitor_convergence(xk), called by the minimizer.
monitor_convergence ==
    /\ monitor_pc = "built"
    /\ calls < MaxCalls
    /\ \E u \in Readings, g \in Readings : monitor_convergence_body(u, g)
    /\ UNCHANGED << monitor_pc, call_every, Uext_given, save_path_given,
                    pictures, raised >>

\* save_pictures(xk), lines 72-105, where the drawing succeeds: the figure is
\* written under the current call_counter when there is a save path, and
\* monitor_convergence(xk) runs last.
save_pictures ==
    /\ monitor_pc = "built"
    /\ calls < MaxCalls
    /\ pictures' = IF save_path_given THEN Append(pictures, call_counter)
                   ELSE pictures
    /\ raised' = FALSE
    /\ \E u \in Readings, g \in Readings : monitor_convergence_body(u, g)
    /\ UNCHANGED << monitor_pc, call_every, Uext_given, save_path_given >>

\* save_pictures(xk) where the drawing fails: without Uext nothing is drawn
\* that plt.colorbar() of line 96 could take its colours from, and where the
\* plotting library refuses that, the call ends before line 98 and before
\* monitor_convergence.
save_pictures_raises ==
    /\ monitor_pc = "built"
    /\ calls < MaxCalls
    /\ ~Uext_given
    /\ raised' = TRUE
    /\ UNCHANGED << monitor_pc, call_every, call_counter, iter, curr_fun,
                    curr_grad_norm, jac_rows, Uext_given, save_path_given,
                    pictures, calls >>

\* ----------------------------------------------------------- specifications
vars == << annealVars, codecVars, rijVars, energyVars, monitorVars >>

\* perturb_and_solve, called once.
Init == InitAnneal /\ CodecOff /\ RijOff /\ EnergyOff /\ MonitorOff

Next ==
    \/ Enter /\ UNCHANGED << codecVars, rijVars, energyVars, monitorVars >>
    \/ Perturb /\ UNCHANGED << codecVars, rijVars, energyVars, monitorVars >>
    \/ Minimize /\ UNCHANGED << codecVars, rijVars, energyVars, monitorVars >>
    \/ Evaluate /\ UNCHANGED << codecVars, rijVars, energyVars, monitorVars >>
    \/ Return /\ UNCHANGED << codecVars, rijVars, energyVars, monitorVars >>

Spec == Init /\ [][Next]_vars

\* The codec's two functions, called on their own.
InitOfCodec == InitCodec /\ AnnealOff /\ RijOff /\ EnergyOff /\ MonitorOff

NextCodec ==
    \/ Encode /\ UNCHANGED << annealVars, rijVars, energyVars, monitorVars >>
    \/ DecodeEncoded /\ UNCHANGED << annealVars, rijVars, energyVars, monitorVars >>
    \/ Decode /\ UNCHANGED << annealVars, rijVars, energyVars, monitorVars >>
    \/ EncodeDecoded /\ UNCHANGED << annealVars, rijVars, energyVars, monitorVars >>

SpecCodec == InitOfCodec /\ [][NextCodec]_vars

\* The pair distances of the periodic variant, as Vee and grad_Vee obtain them.
InitOfRij == InitRij /\ AnnealOff /\ CodecOff /\ EnergyOff /\ MonitorOff

NextRij ==
    \/ MapY /\ UNCHANGED << annealVars, codecVars, energyVars, monitorVars >>
    \/ CalculateRij /\ UNCHANGED << annealVars, codecVars, energyVars, monitorVars >>
    \/ FillDiagonal /\ UNCHANGED << annealVars, codecVars, energyVars, monitorVars >>
    \/ CalculateYiYj /\ UNCHANGED << annealVars, codecVars, energyVars, monitorVars >>

SpecRij == InitOfRij /\ [][NextRij]_vars

\* The energy and its gradient, evaluated at one position vector.
InitOfEnergy == InitEnergy /\ AnnealOff /\ CodecOff /\ RijOff /\ MonitorOff

NextEnergy ==
    Evaluate_r /\ UNCHANGED << annealVars, codecVars, rijVars, monitorVars >>

SpecEnergy == InitOfEnergy /\ [][NextEnergy]_vars

\* A ConvergenceMonitor, built and then called back by the minimizer.
InitOfMonitor ==
    InitMonitor /\ AnnealOff /\ CodecOff /\ RijOff /\ EnergyOff

NextMonitor ==
    \/ monitor_convergence
         /\ UNCHANGED << annealVars, codecVars, rijVars, energyVars >>
    \/ save_pictures
         /\ UNCHANGED << annealVars, codecVars, rijVars, energyVars >>
    \/ save_pictures_raises
         /\ UNCHANGED << annealVars, codecVars, rijVars, energyVars >>

SpecMonitor == InitOfMonitor /\ [][NextMonitor]_vars

\* ---------------------------------------------------------------- claims
Entered == pc # "Idle"

\* C1: annealing monotonicity.  Whatever the starting solution, the trial
\* count and the minimizer's results, the best result held after every trial
\* and the result returned have an energy <= the starting solution's.
C1_Monotone ==
    /\ Entered => best_result.fun <= solution_data_reference.fun
    /\ pc = "Done" => returned.fun <= solution_data_reference.fun

\* C1's case: all trials ran, one of them replaced the best result, and the
\* result was returned.
C1_Witness ==
    /\ pc = "Done"
    /\ n = MaxTrials
    /\ returned # solution_data_reference
    /\ returned.fun < solution_data_reference.fun

\* C2: the best result held is the starting solution or the result of a trial
\* of status 0, so it is converged whenever the starting solution is; a trial
\* of nonzero status never replaces the best result, whatever its energy.
C2_BestIsConverged ==
    /\ [](Entered =>
            /\ best_result = solution_data_reference \/ best_result.status = 0
            /\ solution_data_reference.status = 0 => best_result.status = 0)
    /\ [](pc = "Done" =>
            /\ returned = solution_data_reference \/ returned.status = 0
            /\ solution_data_reference.status = 0 => returned.status = 0)
    /\ [][pc = "Evaluating" /\ res.status # 0 => best_result' = best_result]_vars

\* C2's case: a trial of nonzero status reported a lower energy than the best
\* result and was discarded.
C2_Witness ==
    /\ pc = "Loop"
    /\ signal = "missed"
    /\ best_result = solution_data_reference

\* The signal the four cases of the classification prescribe; the signal of
\* "no improvement" is the silent one.
Prescribed(r, best) ==
    IF r.status = 0 /\ r.fun < best.fun THEN "improved"
    ELSE IF r.status = 0 /\ r.fun >= best.fun THEN "quiet"
    ELSE IF r.status # 0 /\ r.fun < best.fun THEN "missed"
    ELSE "failed"

\* C3: the classification is total and exclusive.  Every trial, whatever its
\* status and its energy relative to the best energy (lower, equal, higher),
\* takes the one case the four cases prescribe and emits its signal, and in
\* every case but "improved" the best result is left unchanged.
C3_Classification ==
    [][pc = "Evaluating" =>
         /\ signal' = Prescribed(res, best_result)
         /\ signal' # "improved" => best_result' = best_result]_vars

\* C4: codec round trip.  For coordinate sequences x, y of equal length,
\* r2xy(xy2r(x, y)) is (x, y); for a position vector r of even length,
\* xy2r(*r2xy(r)) is r; and the k-th charge of the decoded view of r is
\* (r[2k], r[2k+1]) counted from 0, which is (r[2k-1], r[2k]) counted from 1.
C4_RoundTrip ==
    /\ codec_pc = "round_trip_xy" =>
          codec_dec = << codec_in.x, codec_in.y >>
    /\ codec_pc = "round_trip_r" /\ Len(codec_in.r) % 2 = 0 =>
          ~codec_enc.raised /\ codec_enc.r = codec_in.r
    /\ codec_pc = "decoded" /\ Len(codec_in.r) % 2 = 0 =>
          /\ Len(codec_dec[1]) = Len(codec_in.r) \div 2
          /\ Len(codec_dec[2]) = Len(codec_in.r) \div 2
          /\ \A k \in 1..(Len(codec_in.r) \div 2) :
                /\ codec_dec[1][k] = codec_in.r[2 * k - 1]
                /\ codec_dec[2][k] = codec_in.r[2 * k]

\* C4's case: two different sequences of the greatest length went through
\* xy2r and back through r2xy.
C4_Witness ==
    /\ codec_pc = "round_trip_xy"
    /\ Len(codec_in.x) = MaxLen
    /\ codec_in.x # codec_in.y
    /\ codec_dec = << codec_in.x, codec_in.y >>

\* C5: xy2r raises whenever len(x) # len(y), returning no vector (padded,
\* truncated or other); whenever len(x) = len(y) it returns, without raising,
\* a vector of length exactly 2 * len(x).
C5_ShapeMismatch ==
    codec_pc = "encoded" =>
        IF Len(codec_in.x) # Len(codec_in.y)
        THEN codec_enc.raised /\ codec_enc.r = << >>
        ELSE ~codec_enc.raised /\ Len(codec_enc.r) = 2 * Len(codec_in.x)

\* C5's case: xy2r was called with sequences of unequal, nonzero lengths and
\* raised.
C5_Witness ==
    /\ codec_pc = "encoded"
    /\ Len(codec_in.x) > Len(codec_in.y)
    /\ Len(codec_in.y) > 0
    /\ codec_enc.raised

\* C6: periodic minimum image.  For every pair of charges handed to
\* calculate_Rij whose y-separation |dy| exceeds half the domain length L, the
\* distance returned is strictly less than the direct distance
\* sqrt(dx^2 + dy^2) and equals the wrapped one, sqrt(dx^2 + (L - |dy|)^2).
\* (Distances are compared by their squares.)
C6_MinimumImage ==
    rij_pc = "done" =>
        \A m \in 1..Len(rij_yi), c \in 1..Len(rij_xi) :
            LET dx == rij_xi[c] - rij_xi[m]
                dy == rij_yi[m] - rij_yi[c]
            IN  2 * Abs(dy) > box_y_length =>
                  /\ Rij[m][c] < Square(dx) + Square(dy)
                  /\ Rij[m][c] = Square(dx) + Square(box_y_length - Abs(dy))

\* C6's case: calculate_Rij returned the distances of charges of which two
\* are further apart in y than half the domain and differ in x as well.
C6_Witness ==
    /\ rij_pc = "done"
    /\ \E m \in 1..Len(rij_yi), c \in 1..Len(rij_xi) :
          /\ 2 * Abs(rij_yi[m] - rij_yi[c]) > box_y_length
          /\ rij_xi[m] # rij_xi[c]
          /\ Rij[m][c] < Square(rij_xi[c] - rij_xi[m]) + Square(rij_yi[m] - rij_yi[c])

\* Two charges in zero external field, evaluated.
TwoChargesNoField ==
    /\ energy_pc = "done"
    /\ Len(energy_in.r) = 4
    /\ energy_in.field = "zero"

\* The distance d of the two charges of energy_in.r: the Euclidean one, and
\* in the periodic variant the one to the nearer image, whose y-separation is
\* the smaller of |dy| and L - |dy| for y mapped into the domain.
Separation ==
    LET r == energy_in.r
        L == energy_in.L
        dx == r[3] - r[1]
        dy == IF energy_in.solver = "ResonatorSolver"
              THEN LET w == Abs(map_y_into_domain(<<r[4]>>, L)[1]
                                  - map_y_into_domain(<<r[2]>>, L)[1])
                   IN  Min(w, L - w)
              ELSE r[4] - r[2]
    IN  Rat(Sqrt(Square(dx) + Square(dy)), 1)

\* C7 as stated: for two charges a distance d apart in zero external field,
\* Vtotal returns k qe / (2 d), the value of a single off-diagonal entry
\* k qe^2 / (2 d) divided by qe.
C7_AsStated ==
    TwoChargesNoField =>
        Vtot = RDiv(RMul(k_coulomb, qe), RMul(Rat(2, 1), Separation))

\* C7 amended: for two charges a distance d apart in zero external field,
\* Vtotal returns k qe / d: the interaction matrix holds the entry
\* k qe^2 / (2 d) twice, at (i, j) and at (j, i), and both are summed before
\* the division by qe.
C7_TwoChargeEnergy ==
    TwoChargesNoField =>
        Vtot = RDiv(RMul(k_coulomb, qe), Separation)

\* C7's case: the scenario, charges at (0, 0) and (1 um, 0) in zero field,
\* with the energy k qe / (1 um).
C7_Witness ==
    /\ TwoChargesNoField
    /\ energy_in.r = << 0, 0, 1, 0 >>
    /\ Vtot = One

\* Two charges on the x axis in zero external field, evaluated.
TwoChargesOnXAxis ==
    /\ TwoChargesNoField
    /\ energy_in.r[2] = 0
    /\ energy_in.r[4] = 0

Sign(a) == IF a[1] > 0 THEN 1 ELSE IF a[1] < 0 THEN 0 - 1 ELSE 0
SignOfInt(v) == IF v > 0 THEN 1 ELSE IF v < 0 THEN 0 - 1 ELSE 0

\* C8 as stated: for two charges on the x axis in zero external field, the x
\* components of grad_total at the two charges have equal magnitude and
\* opposite sign, the gradient at each charge points away from the other
\* charge, and both y components are zero.
C8_AsStated ==
    TwoChargesOnXAxis =>
        /\ gradient[1] = RNeg(gradient[3])
        /\ Sign(gradient[1]) = SignOfInt(energy_in.r[1] - energy_in.r[3])
        /\ Sign(gradient[3]) = SignOfInt(energy_in.r[3] - energy_in.r[1])
        /\ gradient[2] = Zero
        /\ gradient[4] = Zero

\* C8 amended: for two charges on the x axis a distance d apart in zero
\* external field, the x components of grad_total at the two charges have the
\* equal magnitude k qe / d^2 and opposite sign, the gradient at each charge
\* points toward the other charge (the energy grows as the charges approach,
\* so it is the descent direction -grad_total that points them apart), and
\* both y components are zero.
C8_TwoChargeGradient ==
    TwoChargesOnXAxis =>
        /\ gradient[1] = RNeg(gradient[3])
        /\ Sign(gradient[1]) = SignOfInt(energy_in.r[3] - energy_in.r[1])
        /\ Sign(gradient[3]) = SignOfInt(energy_in.r[1] - energy_in.r[3])
        /\ gradient[1] = RMul(Rat(SignOfInt(energy_in.r[3] - energy_in.r[1]), 1),
                              RDiv(RMul(k_coulomb, qe),
                                   RMul(Separation, Separation)))
        /\ gradient[2] = Zero
        /\ gradient[4] = Zero

\* C8's case: the scenario, charges at (0, 0) and (1 um, 0) in zero field; the
\* gradient is +k qe / um^2 at the first charge and the opposite at the second.
C8_Witness ==
    /\ TwoChargesOnXAxis
    /\ energy_in.r = << 0, 0, 1, 0 >>
    /\ energy_in.solver = "ElectrostaticPotential"
    /\ gradient = << One, Zero, RNeg(One), Zero >>

AtTrialStart == pc = "AwaitingMinimizer"

\* C10 as stated: at T = 0, from a converged starting solution, every thermal
\* amplitude is zero, every trial's perturbed start vector is the starting
\* position, and the result returned is the starting solution.
C10_AsStated ==
    T = 0 /\ solution_data_reference.status = 0 =>
        /\ AtTrialStart =>
              /\ \A k \in DOMAIN kick : AmpIsZero(kick[k])
              /\ electron_perturbed_positions = solution_data_reference.x
        /\ pc = "Done" => returned = solution_data_reference

\* C10 amended: at T = 0, from a converged starting solution, the amplitude
\* of a charge is zero where the field's curvature ddVdx at the charge is
\* nonzero, and that charge is perturbed to exactly its starting coordinates;
\* where the curvature is zero the amplitude is 0/0 = nan and so are the
\* charge's perturbed coordinates.  The result returned is the starting
\* solution unless the minimizer returned, with status 0, an energy strictly
\* below the starting solution's; then it is such a trial's result.
C10_ZeroTemperature ==
    T = 0 /\ solution_data_reference.status = 0 =>
        /\ AtTrialStart =>
              LET start == r2xy(solution_data_reference.x)
                  pert == r2xy(electron_perturbed_positions)
              IN  \A k \in DOMAIN kick :
                    IF ddVdx(start[1][k], start[2][k]) # 0
                    THEN /\ AmpIsZero(kick[k])
                         /\ pert[1][k] = start[1][k]
                         /\ pert[2][k] = start[2][k]
                    ELSE /\ AmpIsNaN(kick[k])
                         /\ pert[1][k] = NaN
                         /\ pert[2][k] = NaN
        /\ pc = "Done" =>
              \/ returned = solution_data_reference
              \/ returned.status = 0 /\ returned.fun < solution_data_reference.fun

\* C10's case: the last of the trials at T = 0 starts, from a converged
\* solution whose charges sit where the curvature is nonzero.
C10_Witness ==
    /\ T = 0
    /\ solution_data_reference.status = 0
    /\ AtTrialStart
    /\ n = MaxTrials - 1
    /\ DOMAIN kick # {}
    /\ \A k \in DOMAIN kick : AmpIsZero(kick[k])
    /\ electron_perturbed_positions = solution_data_reference.x
    /\ best_result = solution_data_reference


\* The call indices 0, N, 2N, ... below k, in increasing order.
MultiplesBelow(k, N) == [i \in 1..((k + N - 1) \div N) |-> (i - 1) * N]

\* C11: after k calls of monitor_convergence, made directly or through
\* save_pictures, on a monitor built with interval N >= 1, the call counter
\* is k, the recorded iterations are exactly the call indices 0, N, 2N, ...
\* below k in increasing order, the recorded energies and gradient norms are
\* as many as the recorded iterations, and a call whose index is not a
\* multiple of N records nothing.
C11_Interval ==
    /\ [](monitor_pc = "built" =>
            /\ call_counter = calls
            /\ iter = MultiplesBelow(calls, call_every)
            /\ Len(curr_fun) = Len(iter)
            /\ Len(curr_grad_norm) = Len(iter))
    /\ [][(calls' = calls + 1 /\ call_counter % call_every # 0) =>
            UNCHANGED << iter, curr_fun, curr_grad_norm >>]_vars

\* C11's case: four calls at interval 3, some of them through save_pictures,
\* have recorded the calls 0 and 3 and nothing at the calls 1 and 2.
C11_Witness ==
    /\ monitor_pc = "built"
    /\ call_every = 3
    /\ calls = 4
    /\ Len(pictures) > 0
    /\ iter = << 0, 3 >>
    /\ Len(curr_fun) = 2
    /\ Len(curr_grad_norm) = 2

\* C12: in perturb_and_solve the position that a trial decodes and perturbs
\* is the position of the best result retained after the trials before it,
\* so that after a trial that replaces the best result the later trials are
\* perturbed from the new best position and not from the original one.
\* Line 504 decodes electron_initial_positions; the formula is stated where a
\* trial has just decoded and perturbed it.
C12_StartFollowsBest ==
    pc = "AwaitingMinimizer" => electron_initial_positions = best_result.x

\* y lies in the domain [-L/2, L/2).
InDomain(y, L) == 0 - L <= 2 * y /\ 2 * y < L

\* y moved by a whole domain length where it is positive.
ImageOf(y, L) == IF y > 0 THEN y - L ELSE y

\* The pair (m, c) of the charges grad_Vee holds after mapping y: the shifted
\* distance is strictly smaller than the direct one (compared by squares).
ImageNearer(m, c) ==
    LET dx == rij_xi[c] - rij_xi[m]
        direct == rij_yi[m] - rij_yi[c]
        shifted == ImageOf(rij_yi[m], box_y_length)
                     - ImageOf(rij_yi[c], box_y_length)
    IN  dx * dx + shifted * shifted < dx * dx + direct * direct

\* C13: in the periodic variant, for every pair (i, j) of charges with
\* in-domain y, the y-difference returned by calculate_YiYj is the shifted
\* difference exactly when the shifted distance is strictly smaller than the
\* direct distance, decided pair by pair, and the direct difference
\* otherwise, so that the distance calculate_Rij returned for the pair is
\* sqrt(dx^2 + dy_eff^2); and both Vee and grad_Vee map y into the domain
\* (each y moves by a multiple of the domain length into [-L/2, L/2)) and put
\* the same eps, 1E-15 m, on the diagonal of Rij before they divide by it.
C13_Consistency ==
    /\ [](rij_pc = "differences" =>
            \A m \in 1..Len(rij_yi), c \in 1..Len(rij_xi) :
                LET dx == rij_xi[c] - rij_xi[m]
                    direct == rij_yi[m] - rij_yi[c]
                    shifted == ImageOf(rij_yi[m], box_y_length)
                                 - ImageOf(rij_yi[c], box_y_length)
                IN  /\ YiYj[m][c] = IF ImageNearer(m, c) THEN shifted
                                    ELSE direct
                    /\ Rij[m][c] = dx * dx + YiYj[m][c] * YiYj[m][c])
    /\ [](rij_pc \in {"filled", "differences"} =>
            /\ rij_caller \in {"Vee", "grad_Vee"}
            /\ Rij_diagonal = << 1, 1000000000 >>
            /\ \A k \in 1..Len(rij_yi) : InDomain(rij_yi[k], box_y_length))
    /\ [][rij_pc = "called" =>
            /\ Len(rij_yi') = Len(rij_yi)
            /\ \A k \in 1..Len(rij_yi) :
                  /\ InDomain(rij_yi'[k], box_y_length)
                  /\ (rij_yi'[k] - rij_yi[k]) % box_y_length = 0]_vars

\* C13's case: grad_Vee, called with three charges of which one had to be
\* mapped into the domain, holds a YiYj in which one pair of distinct y took
\* the shifted difference and another the direct one.
C13_Witness ==
    /\ rij_pc = "differences"
    /\ Len(rij_yi) = 3
    /\ rij_yi[3] = 0 - 2
    /\ box_y_length = 4
    /\ ImageNearer(1, 3) /\ YiYj[1][3] = 0 - 1
    /\ ~ImageNearer(1, 2) /\ YiYj[1][2] = 1
    /\ rij_xi[1] # rij_xi[3]
    /\ Rij_diagonal = eps
=============================================================================
